---------------------------- MODULE Spec2Model ----------------------------
(***************************************************************************)
(* The odds dashboard page (frontend/src/app/page.tsx), its search form    *)
(* and refresh toggle (components/EventSearchForm.tsx) and the data hook   *)
(* useOddsData (hooks/useOddsData.ts), as one state machine.               *)
(*                                                                         *)
(* useOddsData is a thin configuration of the query library's useQuery:    *)
(* one cache entry per query key ["odds", eventId], one observer following *)
(* the page's current key, a repeating refetch timer owned by the          *)
(* observer.  The library behaviour the hook selects with its options is   *)
(* modelled here as the hook's behaviour:                                  *)
(*   - a fetch of a query whose fetchStatus is not idle returns the        *)
(*     pending promise instead of calling queryFn again;                   *)
(*   - starting a fetch of a query without data resets it to pending and   *)
(*     clears its error; a success clears the error and stores the data;   *)
(*     an error keeps the data;                                            *)
(*   - isLoading is isFetching and status pending (the test of the page    *)
(*     clicks the submit button, disabled={isLoading...}, before any       *)
(*     fetch: isLoading is false for a disabled query without data);       *)
(*   - the observer fetches when it moves to an enabled query that is      *)
(*     stale (no data, or data older than staleTime);                      *)
(*   - the refetch timer is restarted on every update of the observed      *)
(*     query (fetch start, settlement) and on a change of key, enabled or  *)
(*     refetchInterval; it is not set while the query is disabled or       *)
(*     refetchInterval is false;                                           *)
(*   - a query that loses its observer keeps its request running (queryFn  *)
(*     ignores the abort signal) and stores the result in its own entry.   *)
(* The document is taken to stay visible and online, and the cache entry   *)
(* of an unobserved key outlives the modelled window (gcTime, 5 minutes).  *)
(*                                                                         *)
(* Time is counted in periods of the countdown timer (1000 ms).  Every     *)
(* handler runs to completion together with the render and the effects it  *)
(* causes (single-threaded event loop).                                    *)
(*                                                                         *)
(* Spec follows the page; in it a successful fetch delivers a summary      *)
(* identified by its key and revision.  NormSpec follows one upstream body *)
(* through the normalizer (lib/api-client) and components/OddsTable.       *)
(***************************************************************************)
EXTENDS Integers, Sequences, FiniteSets, TLC

VARIABLES
    eventId,           \* page.tsx: useState<string>("")
    autoRefresh,       \* page.tsx: useState<boolean>(true)
    secondsRemaining,  \* page.tsx: useState<number>(REFRESH_INTERVAL_MS / 1000)
    timers,            \* number of live window.setInterval countdown timers
    data,              \* per query key: the cached summary, or NoData
    error,             \* per query key: the cached error, or NoError
    fetchStatus,       \* per query key: "idle" or "fetching"
    inflight,          \* per query key: calls of queryFn not yet settled
    dataAge,           \* per query key: periods since dataUpdatedAt (capped)
    sameStamp,         \* the two event keys carry the same dataUpdatedAt
    refetchTimer,      \* periods until the refetch timer fires, or NoTimer
    sinceSettle,       \* periods since the observed key settled, configuration
                       \* unchanged since; NoTimer otherwise (observation only)
    mounted,           \* the page component is mounted
    rawResponse,       \* normalizer: the upstream body handed to it
    normalized,        \* normalizer: the EventOddsSummary it returned
    table,             \* OddsTable: the rows rendered from the summary
    normPc             \* normalizer: "idle", "raw", "normalized" or "rendered"

pageVars == <<eventId, autoRefresh, secondsRemaining, timers, data, error,
              fetchStatus, inflight, dataAge, sameStamp, refetchTimer, sinceSettle,
              mounted>>

normVars == <<rawResponse, normalized, table, normPc>>

vars == <<pageVars, normVars>>

-----------------------------------------------------------------------------
(* Program constants *)

REFRESH_INTERVAL_MS == 15000

CountdownPeriodMs == 1000

StaleTimeMs == 15000

(* Bounds of the model *)

MaxInFlight == 2

MaxTimers == 2

MaxMarkets == 3

-----------------------------------------------------------------------------
(* Text: an event id is a sequence of characters *)

Empty == <<>>

KeyA == <<"A">>

KeyB == <<"B">>

EventKeys == {KeyA, KeyB}

Keys == {Empty} \cup EventKeys

\* What a visitor may have typed into the input when the form is submitted.
Inputs == {<<>>, <<" ">>, <<" ", " ">>, <<"A">>, <<" ", "A", " ">>, <<"B">>, <<"B", " ">>}

RECURSIVE TrimStart(_)
TrimStart(s) == IF s # <<>> /\ Head(s) = " " THEN TrimStart(Tail(s)) ELSE s

RECURSIVE TrimEnd(_)
TrimEnd(s) ==
    IF s # <<>> /\ s[Len(s)] = " " THEN TrimEnd(SubSeq(s, 1, Len(s) - 1)) ELSE s

Trim(s) == TrimEnd(TrimStart(s))

-----------------------------------------------------------------------------
(* Values *)

NoData == [key |-> Empty, rev |-> 0]

NoError == "none"

NoTimer == -1

\* the revisions of an event's odds the upstream may serve
Revs == {1, 2}

Summary(k, r) == [key |-> k, rev |-> r]

FullSeconds == REFRESH_INTERVAL_MS \div 1000

IntervalTicks == REFRESH_INTERVAL_MS \div CountdownPeriodMs

StaleTicks == StaleTimeMs \div CountdownPeriodMs

SettleCap == IntervalTicks + 1

-----------------------------------------------------------------------------
(* lib/api-client: fetchEventOdds; contexts/QueryProvider: the defaults *)

\* retries of a failed call before the failure settles the query: none, the
\* next attempt is the next tick of the refetch timer
retry == 0

Failure(kind) == [ok |-> FALSE, value |-> NoData, err |-> kind]

Success(k, r) == [ok |-> TRUE, value |-> Summary(k, r), err |-> NoError]

\* The ways one call can settle: a normalized summary for the requested id,
\* or a failure of one of the kinds of the error taxonomy.
fetchEventOdds(k) ==
    IF k = Empty
    THEN {Failure("InvalidArgument")}
    ELSE {Success(k, r) : r \in Revs}
         \cup {Failure("TransportError"), Failure("MalformedResponse")}

-----------------------------------------------------------------------------
(* hooks/useOddsData *)

\* variant: the key leaves the event id out (queryKey: ["odds"])
queryKeyNoId(k) == Empty

\* queryKey: ["odds", eventId]
queryKey(k) == k

\* queryFn: throws when eventId is falsy, else calls the fetch client
queryFn(k) ==
    IF k = Empty THEN {Failure("Missing event identifier")} ELSE fetchEventOdds(k)

\* variant: the toggle also gates the query (enabled: autoRefresh && Boolean(eventId))
pageEnabledWhenAuto(k) == autoRefresh /\ k # Empty

\* page.tsx: enabled: Boolean(eventId)
pageEnabled(k) == k # Empty

\* variant: the query is always enabled (enabled: true)
enabledAlways(k) == TRUE

\* enabled: enabled && Boolean(eventId)
enabled(k) == pageEnabled(k) /\ k # Empty

\* variant: the interval ignores the toggle (refetchInterval: REFRESH_INTERVAL_MS)
refetchIntervalAlways(ar) == IntervalTicks

\* page.tsx: refetchInterval: autoRefresh ? REFRESH_INTERVAL_MS : false
refetchInterval(ar) == IF ar THEN IntervalTicks ELSE NoTimer

\* The refetch timer the observer sets for key k.
ArmTimer(k, ar) == IF enabled(k) THEN refetchInterval(ar) ELSE NoTimer

\* staleTime: 15_000
IsStale(q) == data[q] = NoData \/ dataAge[q] >= StaleTicks

Status(q) ==
    IF error[q] # NoError THEN "error"
    ELSE IF data[q] # NoData THEN "success" ELSE "pending"

\* variant: every fetch calls queryFn, pending request or not
DedupedNever(q) == FALSE

\* A fetch of a query that is already fetching returns the pending promise.
Deduped(q) == fetchStatus[q] # "idle"

StartsRequest(k) == ~Deduped(queryKey(k)) /\ Len(inflight[queryKey(k)]) < MaxInFlight

\* query.fetch for key k: the pending calls of queryFn after it
FetchedInflight(k) ==
    IF StartsRequest(k)
    THEN [inflight EXCEPT ![queryKey(k)] = Append(@, k)]
    ELSE inflight

FetchedStatus(k) == [fetchStatus EXCEPT ![queryKey(k)] = "fetching"]

\* variant: a fetch start leaves the previous error in place
FetchedErrorKept(k) == error

\* a fetch that starts without data resets the query to pending, error null
FetchedError(k) ==
    IF ~Deduped(queryKey(k)) /\ data[queryKey(k)] = NoData
    THEN [error EXCEPT ![queryKey(k)] = NoError]
    ELSE error

\* The observer moves from key prev to key k: it fetches an enabled, stale query.
ObserverFetches(prev, k) ==
    /\ queryKey(k) # queryKey(prev) \/ ~enabled(prev)
    /\ enabled(k)
    /\ IsStale(queryKey(k))

-----------------------------------------------------------------------------
(* app/page.tsx: what the page reads from the query *)

Observed == queryKey(eventId)

isFetching == fetchStatus[Observed] = "fetching"

isLoading == isFetching /\ Status(Observed) = "pending"

exposedData == data[Observed]

exposedError == error[Observed]

\* EventSearchForm isLoading={isLoading || (isFetching && !data)}: button disabled
SubmitDisabled == isLoading \/ (isFetching /\ exposedData = NoData)

\* dataUpdatedAt differs between the entries of two keys
StampChanged(qOld, qNew) ==
    IF qOld = qNew \/ (data[qOld] = NoData /\ data[qNew] = NoData) THEN FALSE
    ELSE IF data[qOld] = NoData \/ data[qNew] = NoData THEN TRUE
    ELSE ~sameStamp

(* The countdown effect, deps [autoRefresh, dataUpdatedAt] *)

Min(a, b) == IF a < b THEN a ELSE b

\* variant: the effect depends on the toggle alone (deps [autoRefresh])
EffectRunsOnToggleOnly(prevAuto, ar, stampChanged) == prevAuto # ar

\* the effect runs again after a render in which one of its deps changed
EffectRuns(prevAuto, ar, stampChanged) == prevAuto # ar \/ stampChanged

\* variant: the effect returns no cleanup
ClearedNone(prevAuto) == timers

\* return () => window.clearInterval(timer): the previous run's timer, if it made one
ClearedTimers(prevAuto) == IF prevAuto /\ timers > 0 THEN timers - 1 ELSE timers

\* variant: the branch for auto-refresh off returns without resetting the count
CountdownEffectNoReset(prevAuto, ar) ==
    /\ secondsRemaining' = IF ar THEN FullSeconds ELSE secondsRemaining
    /\ timers' = Min(ClearedTimers(prevAuto) + (IF ar THEN 1 ELSE 0), MaxTimers)

\* the effect body: setSecondsRemaining(full), and a new timer when autoRefresh
CountdownEffect(prevAuto, ar) ==
    /\ secondsRemaining' = FullSeconds
    /\ timers' = Min(ClearedTimers(prevAuto) + (IF ar THEN 1 ELSE 0), MaxTimers)

\* variant: the wrap is taken one tick late (current <= 0)
CountdownStepToZero(current) == IF current <= 0 THEN FullSeconds ELSE current - 1

\* (current) => (current <= 1 ? REFRESH_INTERVAL_MS / 1000 : current - 1)
CountdownStep(current) == IF current <= 1 THEN FullSeconds ELSE current - 1

-----------------------------------------------------------------------------
(* lib/api-client: the normalizer; app/layout.tsx: the shapes it maps      *)
(* between.  A JSON object is a record that has a field or not; a number   *)
(* is counted in units of 10^-FractionDigits (odds are quoted to two       *)
(* decimals); a string that is parsed is a sequence of characters.         *)
(* lastUpdated and updatedAt (dates, the wall clock) are left out.         *)

FractionDigits == 2

RECURSIVE Pow10(_)
Pow10(n) == IF n = 0 THEN 1 ELSE 10 * Pow10(n - 1)

Unit == Pow10(FractionDigits)

Has(obj, field) == field \in DOMAIN obj

\* an optional string that is present and not empty
Present(obj, field) == Has(obj, field) /\ obj[field] # ""

\* the values an odds field can hold
Num(h) == [kind |-> "number", num |-> h]

NaN == [kind |-> "NaN"]

Infinity == [kind |-> "Infinity"]

Str(chars) == [kind |-> "string", text |-> chars]

Null == [kind |-> "null"]

Undefined == [kind |-> "undefined"]

Digits == <<"0", "1", "2", "3", "4", "5", "6", "7", "8", "9">>

IsDigit(c) == \E d \in DOMAIN Digits : Digits[d] = c

DigitValue(c) == (CHOOSE d \in DOMAIN Digits : Digits[d] = c) - 1

AllDigits(s) == s # <<>> /\ \A i \in DOMAIN s : IsDigit(s[i])

RECURSIVE DigitsValue(_)
DigitsValue(s) ==
    IF s = <<>> THEN 0
    ELSE 10 * DigitsValue(SubSeq(s, 1, Len(s) - 1)) + DigitValue(s[Len(s)])

\* the first FractionDigits digits after the point, zeros filled in
FractionValue(frac) ==
    DigitsValue(SubSeq(frac \o [i \in 1 .. FractionDigits |-> "0"], 1, FractionDigits))

\* a decimal numeral without sign: digits, or digits "." digits
ParseUnsigned(s) ==
    IF AllDigits(s) THEN [ok |-> TRUE, num |-> Unit * DigitsValue(s)]
    ELSE IF \E i \in DOMAIN s :
               /\ s[i] = "."
               /\ AllDigits(SubSeq(s, 1, i - 1))
               /\ AllDigits(SubSeq(s, i + 1, Len(s)))
    THEN LET i == CHOOSE j \in DOMAIN s : s[j] = "."
         IN  [ok |-> TRUE,
              num |-> Unit * DigitsValue(SubSeq(s, 1, i - 1))
                        + FractionValue(SubSeq(s, i + 1, Len(s)))]
    ELSE [ok |-> FALSE, num |-> 0]

\* the number a string denotes, when it is a decimal numeral
ParseNumber(s) ==
    IF s # <<>> /\ Head(s) = "-"
    THEN LET p == ParseUnsigned(Tail(s)) IN [ok |-> p.ok, num |-> 0 - p.num]
    ELSE ParseUnsigned(s)

\* variant: an unknown value becomes 0
normalizeOddsZero(raw) ==
    IF raw.kind = "number" /\ raw.num >= 0 THEN raw
    ELSE IF raw.kind = "string" /\ ParseNumber(raw.text).ok /\ ParseNumber(raw.text).num >= 0
    THEN Num(ParseNumber(raw.text).num)
    ELSE Num(0)

\* odds: a finite non-negative number as it is, a string that parses as
\* one parsed, unknown (null) otherwise
normalizeOdds(raw) ==
    IF raw.kind = "number"
    THEN IF raw.num >= 0 THEN raw ELSE Null
    ELSE IF raw.kind = "string"
    THEN LET p == ParseNumber(raw.text)
         IN  IF p.ok /\ p.num >= 0 THEN Num(p.num) ELSE Null
    ELSE Null

UnknownBookmaker == "unknown-bookmaker"

\* BookmakerOdds
normalizeSelection(sel) ==
    [bookmakerId |-> IF Has(sel, "bookmaker") /\ Present(sel.bookmaker, "id")
                     THEN sel.bookmaker.id ELSE UnknownBookmaker,
     bookmakerName |-> IF Has(sel, "bookmaker") /\ Present(sel.bookmaker, "name")
                       THEN sel.bookmaker.name ELSE UnknownBookmaker,
     selectionId |-> sel.id,
     selectionName |-> sel.name,
     odds |-> normalizeOdds(IF Has(sel, "odds") THEN sel.odds ELSE Undefined)]

\* MarketOdds: the name falls back to the id
normalizeMarket(market) ==
    [marketId |-> market.id,
     marketName |-> IF Present(market, "name") THEN market.name ELSE market.id,
     selections |-> IF Has(market, "selections")
                    THEN [i \in DOMAIN market.selections |->
                            normalizeSelection(market.selections[i])]
                    ELSE <<>>]

\* a market without an id is dropped
KeptMarkets(markets) == SelectSeq(markets, LAMBDA market : Present(market, "id"))

\* EventOddsSummary
normalize(raw, requestedEventId) ==
    LET id == IF Has(raw, "event") /\ Present(raw.event, "id")
              THEN raw.event.id ELSE requestedEventId
        kept == IF Has(raw, "markets") THEN KeptMarkets(raw.markets) ELSE <<>>
    IN  [eventId |-> id,
         eventName |-> IF Has(raw, "event") /\ Present(raw.event, "name")
                       THEN raw.event.name ELSE id,
         markets |-> [i \in DOMAIN kept |-> normalizeMarket(kept[i])]]

-----------------------------------------------------------------------------
(* components/OddsTable *)

RECURSIVE NaturalText(_)
NaturalText(n) ==
    IF n < 10 THEN <<Digits[n + 1]>>
    ELSE NaturalText(n \div 10) \o <<Digits[(n % 10) + 1]>>

RECURSIVE FractionText(_, _)
FractionText(n, width) ==
    IF width = 0 THEN <<>>
    ELSE FractionText(n \div 10, width - 1) \o <<Digits[(n % 10) + 1]>>

\* Number.prototype.toFixed(2)
toFixed(h) ==
    (IF h < 0 THEN <<"-">> ELSE <<>>)
    \o LET a == IF h < 0 THEN 0 - h ELSE h
       IN  NaturalText(a \div Unit) \o <<".">> \o FractionText(a % Unit, FractionDigits)

\* the em dash shown for unknown odds
Dash == <<"&mdash;">>

\* selection.odds !== null ? selection.odds.toFixed(2) : em dash
\* (a value without toFixed, a string or undefined, raises a TypeError)
OddsCell(odds) ==
    IF odds # Null
    THEN IF odds.kind = "number" THEN [raised |-> FALSE, text |-> toFixed(odds.num)]
         ELSE IF odds.kind \in {"NaN", "Infinity"}
         THEN [raised |-> FALSE, text |-> <<odds.kind>>]
         ELSE [raised |-> TRUE, text |-> <<>>]
    ELSE [raised |-> FALSE, text |-> Dash]

\* one <tr>: the market header cell on the first row of a market only
Row(market, index) ==
    LET selection == market.selections[index]
    IN  [key |-> selection.selectionId,
         marketName |-> IF index = 1 THEN market.marketName ELSE "",
         selectionName |-> selection.selectionName,
         bookmakerName |-> selection.bookmakerName,
         odds |-> OddsCell(selection.odds)]

MarketRows(market) == [index \in DOMAIN market.selections |-> Row(market, index)]

\* variant: the rows of later markets come first
RECURSIVE RowsReversed(_)
RowsReversed(markets) ==
    IF markets = <<>> THEN <<>>
    ELSE RowsReversed(Tail(markets)) \o MarketRows(Head(markets))

\* summary.markets.map(market => market.selections.map(...)), in order
RECURSIVE Rows(_)
Rows(markets) ==
    IF markets = <<>> THEN <<>>
    ELSE MarketRows(Head(markets)) \o Rows(Tail(markets))

\* the table, or the note shown for a summary without markets
OddsTable(summary) ==
    [empty |-> Len(summary.markets) = 0, rows |-> Rows(summary.markets)]

NoResponse == <<>>

NoSummary == [eventId |-> "", eventName |-> "", markets |-> <<>>]

NoTable == [empty |-> TRUE, rows |-> <<>>]

NormIdle ==
    /\ rawResponse = NoResponse
    /\ normalized = NoSummary
    /\ table = NoTable
    /\ normPc = "idle"

-----------------------------------------------------------------------------
(* State after the first render and its effects: no event id, auto-refresh *)
(* on, the countdown at the full interval with its timer running.          *)

PageInit ==
    /\ eventId = Empty
    /\ autoRefresh = TRUE
    /\ secondsRemaining = FullSeconds
    /\ timers = 1
    /\ data = [q \in Keys |-> NoData]
    /\ error = [q \in Keys |-> NoError]
    /\ fetchStatus = [q \in Keys |-> "idle"]
    /\ inflight = [q \in Keys |-> <<>>]
    /\ dataAge = [q \in Keys |-> 0]
    /\ sameStamp = FALSE
    /\ refetchTimer = ArmTimer(Empty, TRUE)
    /\ sinceSettle = NoTimer
    /\ mounted = TRUE

Init == PageInit /\ NormIdle

-----------------------------------------------------------------------------
(* EventSearchForm.handleSubmit -> onSearch = setEventId, then the render: *)
(* useOddsData with the new key, and the countdown effect when the         *)
(* dataUpdatedAt it reads changed.                                         *)

setEventId(k) ==
    LET fetches == ObserverFetches(eventId, k)
        rearm == \/ queryKey(k) # Observed
                 \/ enabled(k) # enabled(eventId)
                 \/ fetches
    IN  /\ eventId' = k
        /\ inflight' = IF fetches THEN FetchedInflight(k) ELSE inflight
        /\ fetchStatus' = IF fetches THEN FetchedStatus(k) ELSE fetchStatus
        /\ error' = IF fetches THEN FetchedError(k) ELSE error
        /\ refetchTimer' = IF rearm THEN ArmTimer(k, autoRefresh) ELSE refetchTimer
        /\ sinceSettle' = NoTimer
        /\ IF EffectRuns(autoRefresh, autoRefresh, StampChanged(Observed, queryKey(k)))
           THEN CountdownEffect(autoRefresh, autoRefresh)
           ELSE UNCHANGED <<secondsRemaining, timers>>
        /\ UNCHANGED <<autoRefresh, data, dataAge, sameStamp, mounted, normVars>>

\* variant: onSearch is called without the test of the trimmed value
handleSubmitNoGuard(raw) ==
    LET trimmed == Trim(raw)
    IN  /\ mounted
        /\ ~SubmitDisabled
        /\ IF trimmed # eventId
           THEN setEventId(trimmed)
           ELSE UNCHANGED vars

handleSubmit(raw) ==
    LET trimmed == Trim(raw)
    IN  /\ mounted
        /\ ~SubmitDisabled
        /\ IF trimmed # Empty /\ trimmed # eventId
           THEN setEventId(trimmed)
           ELSE UNCHANGED vars

(* LiveRefreshToggle onClick -> onToggle(!active) = setAutoRefresh, then   *)
(* the render: a new refetchInterval, and the countdown effect.            *)

onToggle ==
    /\ mounted
    /\ autoRefresh' = ~autoRefresh
    /\ refetchTimer' = ArmTimer(eventId, ~autoRefresh)
    /\ IF EffectRuns(autoRefresh, ~autoRefresh, FALSE)
       THEN CountdownEffect(autoRefresh, ~autoRefresh)
       ELSE UNCHANGED <<secondsRemaining, timers>>
    /\ sinceSettle' = NoTimer
    /\ UNCHANGED <<eventId, data, error, fetchStatus, inflight, dataAge, sameStamp,
                   mounted, normVars>>

(* One period of 1000 ms passes.  It is the period of the countdown timer: *)
(* each live timer runs its callback, setSecondsRemaining(CountdownStep).  *)
(* A refetch timer that is due fires before more time passes.              *)

RECURSIVE CountdownSteps(_, _)
CountdownSteps(n, current) ==
    IF n = 0 THEN current ELSE CountdownSteps(n - 1, CountdownStep(current))

Tick ==
    /\ mounted
    /\ refetchTimer # 0
    /\ secondsRemaining' = CountdownSteps(timers, secondsRemaining)
    /\ refetchTimer' = IF refetchTimer > 0 THEN refetchTimer - 1 ELSE refetchTimer
    /\ dataAge' = [q \in Keys |->
                     IF data[q] # NoData THEN Min(dataAge[q] + 1, StaleTicks)
                     ELSE dataAge[q]]
    /\ sinceSettle' = IF sinceSettle = NoTimer THEN NoTimer
                      ELSE Min(sinceSettle + 1, SettleCap)
    /\ UNCHANGED <<eventId, autoRefresh, timers, data, error, fetchStatus,
                   inflight, sameStamp, mounted, normVars>>

(* The refetch timer's callback: fetch the observed query; the timer       *)
(* repeats (and is restarted by the fetch it starts).                      *)

IntervalFire ==
    /\ mounted
    /\ refetchTimer = 0
    /\ inflight' = FetchedInflight(eventId)
    /\ fetchStatus' = FetchedStatus(eventId)
    /\ error' = FetchedError(eventId)
    /\ refetchTimer' = ArmTimer(eventId, autoRefresh)
    /\ sinceSettle' = NoTimer
    /\ UNCHANGED <<eventId, autoRefresh, secondsRemaining, timers, data,
                   dataAge, sameStamp, mounted, normVars>>

(* A call of queryFn settles with outcome o: the result is stored in the   *)
(* entry the call was made for; the observer, when it is on that entry,    *)
(* restarts its refetch timer and the page renders.                        *)

RemoveAt(s, i) == SubSeq(s, 1, i - 1) \o SubSeq(s, i + 1, Len(s))

OtherStampAtZero(q) ==
    \E o \in EventKeys \ {q} : q \in EventKeys /\ data[o] # NoData /\ dataAge[o] = 0

\* the query's data after a settlement: a success stores the new summary
SettledData(q, o) == IF o.ok THEN o.value ELSE data[q]

\* variant: a success leaves the previous error in place
SettledErrorSticky(q, o) == IF o.ok THEN error[q] ELSE o.err

\* the query's error after a settlement: a success clears it
SettledError(q, o) == IF o.ok THEN NoError ELSE o.err

\* variant: the timer keeps running from the request's start
TimerFromRequestStart(ok) == refetchTimer

\* variant: a failure stops the timer
TimerHaltsOnError(ok) == IF ok THEN ArmTimer(eventId, autoRefresh) ELSE NoTimer

\* the refetch timer after a settlement seen by the observer, success or not
TimerAfterSettle(ok) == ArmTimer(eventId, autoRefresh)

Settle(q, i, o) ==
    /\ inflight' = [inflight EXCEPT ![q] = RemoveAt(@, i)]
    /\ fetchStatus' = [fetchStatus EXCEPT ![q] = "idle"]
    /\ data' = [data EXCEPT ![q] = SettledData(q, o)]
    /\ error' = [error EXCEPT ![q] = SettledError(q, o)]
    /\ IF o.ok
       THEN /\ dataAge' = [dataAge EXCEPT ![q] = 0]
            /\ sameStamp' \in (IF OtherStampAtZero(q) THEN BOOLEAN ELSE {FALSE})
       ELSE UNCHANGED <<dataAge, sameStamp>>
    /\ IF q = Observed
       THEN /\ refetchTimer' = TimerAfterSettle(o.ok)
            /\ sinceSettle' = 0
            /\ IF EffectRuns(autoRefresh, autoRefresh, o.ok)
               THEN CountdownEffect(autoRefresh, autoRefresh)
               ELSE UNCHANGED <<secondsRemaining, timers>>
       ELSE UNCHANGED <<refetchTimer, sinceSettle, secondsRemaining, timers>>
    /\ UNCHANGED <<eventId, autoRefresh, mounted, normVars>>

\* A failed call is called again by the query while retries are left (the
\* call stays pending); with none left the failure settles the query.
Retried(o) == ~o.ok /\ retry > 0

Response ==
    /\ mounted
    /\ \E q \in Keys : \E i \in 1 .. Len(inflight[q]) :
          \E o \in queryFn(inflight[q][i]) :
              IF Retried(o) THEN UNCHANGED vars ELSE Settle(q, i, o)

(* The page is torn down: the cleanup of the countdown effect clears the   *)
(* timer of its last run.  Nothing of the page is followed after that but  *)
(* the timers it left behind: the other variables keep the event id and    *)
(* the toggle and return to their first values.                            *)

Unmount ==
    /\ mounted
    /\ mounted' = FALSE
    /\ timers' = ClearedTimers(autoRefresh)
    /\ secondsRemaining' = FullSeconds
    /\ data' = [q \in Keys |-> NoData]
    /\ error' = [q \in Keys |-> NoError]
    /\ fetchStatus' = [q \in Keys |-> "idle"]
    /\ inflight' = [q \in Keys |-> <<>>]
    /\ dataAge' = [q \in Keys |-> 0]
    /\ sameStamp' = FALSE
    /\ refetchTimer' = NoTimer
    /\ sinceSettle' = NoTimer
    /\ UNCHANGED <<eventId, autoRefresh, normVars>>

Submit == \E raw \in Inputs : handleSubmit(raw)

Next ==
    \/ Submit
    \/ onToggle
    \/ Tick
    \/ IntervalFire
    \/ Response
    \/ Unmount

Spec == Init /\ [][Next]_vars

-----------------------------------------------------------------------------
(* The normalizer and the table on their own: an upstream body is handed   *)
(* to normalize, and the page renders the summary with OddsTable           *)
(* (page.tsx: data && <OddsTable summary={data} />).                       *)

\* the strings an odds field may carry, with the number each denotes (in
\* units of 10^-FractionDigits) when it is a numeral
OddsStrings ==
    {[text |-> <<"1", ".", "9", "5">>, numeral |-> TRUE, num |-> 195],
     [text |-> <<"2">>, numeral |-> TRUE, num |-> 200],
     [text |-> <<"0">>, numeral |-> TRUE, num |-> 0],
     [text |-> <<"1", "0", ".", "5">>, numeral |-> TRUE, num |-> 1050],
     [text |-> <<"-", "3">>, numeral |-> TRUE, num |-> -300],
     [text |-> <<"N", "/", "A">>, numeral |-> FALSE, num |-> 0],
     [text |-> <<"1", ".", "9", "x">>, numeral |-> FALSE, num |-> 0],
     [text |-> <<>>, numeral |-> FALSE, num |-> 0]}

\* the raw odds values: numbers (1.9, 2.1, 0, -3), not-a-number, infinity,
\* strings, null, and undefined for a selection without the field
RawOddsValues ==
    {Num(190), Num(210), Num(0), Num(-300), NaN, Infinity, Null, Undefined}
    \cup {Str(t.text) : t \in OddsStrings}

RawSelection(id, name, bookmaker, odds) ==
    IF odds = Undefined
    THEN [id |-> id, name |-> name, bookmaker |-> bookmaker]
    ELSE [id |-> id, name |-> name, bookmaker |-> bookmaker, odds |-> odds]

BookieOne == [id |-> "bk1", name |-> "Bookie One"]

BookieTwo == [id |-> "bk2", name |-> "Bookie Two"]

\* the market of the page's test, the two odds varied
MatchWinner(a, b) ==
    [id |-> "m1", name |-> "Match Winner",
     selections |-> <<RawSelection("s1", "Team A", BookieOne, a),
                      RawSelection("s2", "Team B", BookieTwo, b)>>]

\* markets with and without id, name, selections and bookmaker
MarketPool ==
    {MatchWinner(Num(190), Num(210)),
     [id |-> "m2", name |-> "Totals",
      selections |-> <<RawSelection("s3", "Over", BookieTwo, Str(<<"1", ".", "9", "5">>)),
                       RawSelection("s4", "Under", BookieOne, Num(-300))>>],
     [name |-> "No id",
      selections |-> <<RawSelection("s5", "Draw", BookieOne, Num(210))>>],
     [id |-> "m4",
      selections |-> <<[id |-> "s6", name |-> "Home", odds |-> Num(0)]>>],
     [id |-> "m5", name |-> "Suspended"]}

RECURSIVE SeqsUpTo(_, _)
SeqsUpTo(S, n) ==
    IF n = 0 THEN {<<>>}
    ELSE LET shorter == SeqsUpTo(S, n - 1)
         IN  shorter \cup {Append(ms, m) : ms \in shorter, m \in S}

RawMarkets ==
    {<<MatchWinner(a, b)>> : a, b \in RawOddsValues} \cup SeqsUpTo(MarketPool, MaxMarkets)

RawEvents ==
    {[id |-> "123456", name |-> "Sample Event"], [id |-> "123456"],
     [name |-> "Sample Event"]}

RawResponses ==
    {[event |-> e, markets |-> ms] : e \in RawEvents, ms \in RawMarkets}
    \cup {[markets |-> ms] : ms \in RawMarkets}
    \cup {[event |-> e] : e \in RawEvents}

\* the body of the page's test
mockOdds ==
    [event |-> [id |-> "123456", name |-> "Sample Event"],
     markets |-> <<MatchWinner(Num(190), Num(210))>>]

RequestedEventId == "123456"

NormInit ==
    /\ PageInit
    /\ rawResponse \in RawResponses
    /\ normalized = NoSummary
    /\ table = NoTable
    /\ normPc = "raw"

\* fetchEventOdds hands the parsed body to the normalizer
NormalizeBody ==
    /\ normPc = "raw"
    /\ normalized' = normalize(rawResponse, RequestedEventId)
    /\ normPc' = "normalized"
    /\ UNCHANGED <<rawResponse, table, pageVars>>

\* the page renders the summary
RenderTable ==
    /\ normPc = "normalized"
    /\ table' = OddsTable(normalized)
    /\ normPc' = "rendered"
    /\ UNCHANGED <<rawResponse, normalized, pageVars>>

NormNext ==
    \/ NormalizeBody
    \/ RenderTable

NormSpec == NormInit /\ [][NormNext]_vars

-----------------------------------------------------------------------------
(* Properties *)

\* the pending calls of queryFn made for event id k, over all cache entries
RequestsFor(k) ==
    Len(SelectSeq(inflight[Empty] \o inflight[KeyA] \o inflight[KeyB],
                  LAMBDA id : id = k))

\* a call made for a key the page has left settles
LateResponse ==
    \E q \in Keys \ {Observed} : \E i \in 1 .. Len(inflight[q]) :
        \E o \in queryFn(inflight[q][i]) : Settle(q, i, o)

\* a call made for the observed key settles with a failure
FailureObserved ==
    \E i \in 1 .. Len(inflight[Observed]) :
        \E o \in queryFn(inflight[Observed][i]) : ~o.ok /\ Settle(Observed, i, o)

\* every settlement of the observed key shows its outcome to the page
AppliedObserved ==
    \A i \in 1 .. Len(inflight[Observed]) :
        \A o \in queryFn(inflight[Observed][i]) :
            Settle(Observed, i, o) =>
                /\ exposedData' = (IF o.ok THEN o.value ELSE exposedData)
                /\ exposedError' = (IF o.ok THEN NoError ELSE o.err)

(* C1: no cross-key leakage.  Every cached summary, and so the data the   *)
(* page shows, was requested for the key of its entry; and a response for *)
(* a key the page has left (A, after the change to B) leaves the data,    *)
(* the error and the fetching flag shown for the current key unchanged.   *)
C1_NoCrossKeyLeakage ==
    /\ [](\A q \in Keys : data[q] # NoData => data[q].key = q)
    /\ [](exposedData # NoData => exposedData.key = eventId)
    /\ [][LateResponse =>
            /\ exposedData' = exposedData
            /\ exposedError' = exposedError
            /\ isFetching' = isFetching]_vars

\* the page is on B, still loading it, a period after the change; the
\* response for A has just been stored in A's entry
C1_Witness ==
    /\ eventId = KeyB
    /\ isFetching
    /\ exposedData = NoData
    /\ refetchTimer = IntervalTicks - 1
    /\ data[KeyA] # NoData
    /\ dataAge[KeyA] = 0
    /\ inflight[KeyA] = <<>>

(* C2: at most one request is in flight per event key, and no step starts *)
(* a request for a key that has one outstanding: a tick of the refetch    *)
(* timer or a re-selection of the key joins the pending request.          *)
C2_AtMostOneInFlight ==
    /\ [](\A k \in Keys : RequestsFor(k) <= 1)
    /\ [](\A q \in Keys : (fetchStatus[q] = "fetching") <=> (inflight[q] # <<>>))
    /\ [][\A k \in Keys : RequestsFor(k) > 0 => RequestsFor(k)' <= RequestsFor(k)]_vars

\* the refetch timer is due while the request for the observed key is
\* outstanding
C2_Witness ==
    /\ refetchTimer = 0
    /\ isFetching
    /\ RequestsFor(eventId) = 1

(* C3: queryFn is never called with an empty event id: no request for it  *)
(* is ever pending, no entry ever holds the missing-identifier failure,   *)
(* and with an empty key the query is idle with no refetch timer.         *)
C3_NoEmptyKeyFetch ==
    /\ RequestsFor(Empty) = 0
    /\ \A q \in Keys : error[q] \notin {"Missing event identifier", "InvalidArgument"}
    /\ eventId = Empty =>
          /\ ~isFetching
          /\ refetchTimer = NoTimer
          /\ exposedData = NoData
          /\ exposedError = NoError

\* no event id, auto-refresh on, 14 seconds into the countdown
C3_Witness ==
    /\ eventId = Empty
    /\ autoRefresh
    /\ secondsRemaining = 1

(* C4: with auto-refresh on and a key set, the refetch timer runs from    *)
(* the settlement: sinceSettle periods after it the timer has             *)
(* IntervalTicks - sinceSettle left, the fetch it starts begins exactly   *)
(* IntervalTicks after the settlement, and it never adds a request to     *)
(* one that is outstanding.                                               *)
C4_IntervalFromSettlement ==
    /\ []((autoRefresh /\ enabled(eventId) /\ sinceSettle # NoTimer) =>
            /\ sinceSettle <= IntervalTicks
            /\ refetchTimer = IntervalTicks - sinceSettle
            /\ ~isFetching)
    /\ [][(IntervalFire /\ ~isFetching) =>
            /\ sinceSettle \in {NoTimer, IntervalTicks}
            /\ RequestsFor(eventId)' = 1]_vars
    /\ [][(IntervalFire /\ isFetching) => inflight' = inflight]_vars

\* the timer is due, a full interval after a settlement that took a while
C4_Witness ==
    /\ refetchTimer = 0
    /\ sinceSettle = IntervalTicks
    /\ autoRefresh
    /\ ~isFetching

(* C5: a failure of the observed key's fetch, with auto-refresh on,       *)
(* restarts the refetch timer at the full interval and starts no request  *)
(* of its own; while the failure is shown and nothing is in flight the    *)
(* timer is running with at most a full interval left; and the request    *)
(* after a failure, the key unchanged, is started by the timer alone.     *)
C5_FailureKeepsPolling ==
    /\ [][(FailureObserved /\ autoRefresh) =>
            /\ refetchTimer' = IntervalTicks
            /\ RequestsFor(eventId)' = 0
            /\ exposedError' # NoError]_vars
    /\ []((autoRefresh /\ exposedError # NoError /\ ~isFetching) =>
            /\ refetchTimer \in 0 .. IntervalTicks
            /\ sinceSettle # NoTimer => refetchTimer = IntervalTicks - sinceSettle)
    /\ [][(exposedError # NoError /\ ~isFetching /\ isFetching' /\ eventId' = eventId)
            => IntervalFire]_vars

\* the failure settled a full interval ago and the timer is due
C5_Witness ==
    /\ autoRefresh
    /\ exposedError # NoError
    /\ ~isFetching
    /\ sinceSettle = IntervalTicks
    /\ refetchTimer = 0

(* C6: turning auto-refresh off keeps the pending request; its outcome is *)
(* shown when it settles on the observed key; with auto-refresh off there *)
(* is no refetch timer, and no step that keeps it off and keeps the key   *)
(* starts a request.                                                      *)
C6_ToggleOffKeepsRequest ==
    /\ [][onToggle => (inflight' = inflight /\ fetchStatus' = fetchStatus)]_vars
    /\ [][~autoRefresh => AppliedObserved]_vars
    /\ [](~autoRefresh => refetchTimer = NoTimer)
    /\ [][(~autoRefresh /\ ~autoRefresh' /\ eventId' = eventId) =>
            \A k \in Keys : RequestsFor(k)' <= RequestsFor(k)]_vars

\* auto-refresh is off and a failed refresh of A has just settled; A was
\* the only key ever selected, so the request was started by the timer
C6_Witness ==
    /\ ~autoRefresh
    /\ eventId = KeyA
    /\ exposedData # NoData
    /\ exposedError # NoError
    /\ sinceSettle = 0
    /\ data[KeyB] = NoData /\ error[KeyB] = NoError /\ fetchStatus[KeyB] = "idle"

(* C7, as stated: isFetching is true exactly when a request for the       *)
(* current key is outstanding, isLoading implies isFetching, and once the *)
(* current key has settled (a key is fetched when it is selected, so it   *)
(* has settled whenever it is set and nothing is in flight) isLoading     *)
(* stays false for as long as the key is kept.                            *)
C7_LoadingOnlyBeforeFirstSettlement ==
    /\ [](isFetching <=> RequestsFor(eventId) > 0)
    /\ [](isLoading => isFetching)
    /\ [][(eventId # Empty /\ ~isFetching /\ eventId' = eventId) => ~isLoading']_vars

(* C7, amended: isFetching is true exactly when a request for the current *)
(* key is outstanding; isLoading is true exactly when such a request is   *)
(* outstanding and the key has no data (after a first load that failed,   *)
(* the next poll shows isLoading again, the error cleared); once the key  *)
(* has data isLoading stays false through every later refresh.            *)
C7_LoadingWhileNoData ==
    /\ [](isFetching <=> RequestsFor(eventId) > 0)
    /\ [](isLoading <=> (isFetching /\ exposedData = NoData))
    /\ [](isLoading => exposedError = NoError)
    /\ [][(exposedData # NoData /\ eventId' = eventId) => ~isLoading']_vars

\* a background refresh of a key that already has data, its last refresh
\* having failed: fetching, not loading
C7_Witness ==
    /\ isFetching
    /\ ~isLoading
    /\ exposedData # NoData
    /\ exposedError # NoError

(* C8: a failure of either kind is stored as the error of its entry, the  *)
(* data kept; a later success of the same entry stores the new summary as *)
(* its data and clears the error.  The error shown is always one of the   *)
(* two failures of the fetch client.                                      *)
C8_ErrorRecoverable ==
    /\ [][\A q \in Keys : \A i \in 1 .. Len(inflight[q]) :
            \A o \in queryFn(inflight[q][i]) :
                Settle(q, i, o) =>
                    /\ data'[q] = (IF o.ok THEN o.value ELSE data[q])
                    /\ error'[q] = (IF o.ok THEN NoError ELSE o.err)]_vars
    /\ [](\A q \in Keys : error[q] \in {NoError, "TransportError", "MalformedResponse"})
    /\ [](\A q \in Keys : Status(q) = "success" <=> (data[q] # NoData /\ error[q] = NoError))

\* a malformed response is shown as the error, over the summary of an
\* earlier success, and the next request for the key is outstanding
C8_Witness ==
    /\ exposedError = "MalformedResponse"
    /\ exposedData # NoData
    /\ isFetching

(* C9: while auto-refresh is off the countdown shows the full interval    *)
(* and no countdown timer is live, whatever else happens.                 *)
C9_CountdownInactive ==
    ~autoRefresh => (secondsRemaining = FullSeconds /\ timers = 0)

\* auto-refresh is off, a fetch of the current key settled while it was
\* off, and time has passed since
C9_Witness ==
    /\ ~autoRefresh
    /\ eventId # Empty
    /\ sinceSettle > 0

(* C10: the countdown is always a whole number of 1 .. FullSeconds; with  *)
(* auto-refresh on (the page mounted) exactly one timer is live, and a    *)
(* period takes the countdown down by one, or from 1 back to the full     *)
(* interval, a request outstanding or not.                                *)
C10_CountdownActive ==
    /\ [](secondsRemaining \in 1 .. FullSeconds)
    /\ []((mounted /\ autoRefresh) => timers = 1)
    /\ [][(Tick /\ autoRefresh) =>
            secondsRemaining' = (IF secondsRemaining = 1 THEN FullSeconds
                                 ELSE secondsRemaining - 1)]_vars

\* the countdown is at 1 with auto-refresh on and a request outstanding
C10_Witness ==
    /\ autoRefresh
    /\ secondsRemaining = 1
    /\ isFetching

\* a call made for the observed key settles with a success: the data of the
\* page gets a new dataUpdatedAt
SuccessObserved ==
    \E i \in 1 .. Len(inflight[Observed]) :
        \E o \in queryFn(inflight[Observed][i]) : o.ok /\ Settle(Observed, i, o)

\* the page moves to a key whose entry carries another dataUpdatedAt
StampChangedByKey ==
    /\ eventId' # eventId
    /\ StampChanged(Observed, queryKey(eventId'))

(* C11: every step that changes the dataUpdatedAt the page reads (a fetch *)
(* of the current key completes successfully, or the page moves to a key  *)
(* whose data was settled at another time) sets the countdown to the full *)
(* interval, whatever it was, and leaves exactly the one timer the effect *)
(* has just created when auto-refresh is on, none when it is off.         *)
C11_ResetOnSettlement ==
    [][(SuccessObserved \/ StampChangedByKey) =>
          /\ secondsRemaining' = FullSeconds
          /\ timers' = (IF autoRefresh THEN 1 ELSE 0)
          /\ autoRefresh' = autoRefresh]_vars

\* a fetch of the current key has just succeeded with auto-refresh on: the
\* countdown is at the full interval with one timer live
C11_Witness ==
    /\ autoRefresh
    /\ sinceSettle = 0
    /\ exposedData # NoData
    /\ exposedData.rev = 2
    /\ exposedError = NoError
    /\ dataAge[Observed] = 0
    /\ secondsRemaining = FullSeconds
    /\ timers = 1

\* the upstream markets that carry an id, in upstream order
RawKept ==
    IF Has(rawResponse, "markets")
    THEN SelectSeq(rawResponse.markets, LAMBDA m : Has(m, "id") /\ m.id # "")
    ELSE <<>>

RawSelections(i) == IF Has(RawKept[i], "selections") THEN RawKept[i].selections ELSE <<>>

RawOddsAt(i, j) ==
    IF Has(RawSelections(i)[j], "odds") THEN RawSelections(i)[j].odds ELSE Undefined

\* what a raw odds value stands for: the number when it is a finite number
\* that is not negative, the number a numeral string denotes (as listed in
\* OddsStrings) when that is not negative, unknown in every other case
ExpectedOdds(r) ==
    IF r.kind = "number" THEN (IF r.num >= 0 THEN r ELSE Null)
    ELSE IF r.kind = "string"
    THEN LET t == CHOOSE t \in OddsStrings : t.text = r.text
         IN  IF t.numeral /\ t.num >= 0 THEN Num(t.num) ELSE Null
    ELSE Null

(* C12: every normalized odds value is null or a number that is not       *)
(* negative, never NaN, infinity or a string; it is the raw number when   *)
(* that is finite and not negative, the number a numeral string denotes   *)
(* ("1.95" gives 1.95), and null for everything else: an absent field,    *)
(* null, "N/A", an empty string, -3, "-3", NaN.  0 comes from 0 or "0"    *)
(* alone.  Every cell the table renders from it is the number to two      *)
(* decimals or the dash, without raising.                                 *)
C12_OddsNormalized ==
    normPc \in {"normalized", "rendered"} =>
        /\ Len(normalized.markets) = Len(RawKept)
        /\ \A i \in DOMAIN normalized.markets :
              /\ Len(normalized.markets[i].selections) = Len(RawSelections(i))
              /\ \A j \in DOMAIN normalized.markets[i].selections :
                    LET r == RawOddsAt(i, j)
                        n == normalized.markets[i].selections[j].odds
                    IN  /\ n = Null \/ (n.kind = "number" /\ n.num >= 0)
                        /\ n = ExpectedOdds(r)
                        /\ n = Num(0) => r \in {Num(0), Str(<<"0">>)}
        /\ normPc = "rendered" =>
              \A k \in DOMAIN table.rows :
                  /\ ~table.rows[k].odds.raised
                  /\ table.rows[k].odds.text # <<>>
                  /\ Head(table.rows[k].odds.text) # "-"

\* the odds "1.95" and "N/A" have been normalized to 1.95 and null and
\* rendered as 1.95 and the dash
C12_Witness ==
    /\ normPc = "rendered"
    /\ Has(rawResponse, "markets")
    /\ rawResponse.markets = <<MatchWinner(Str(<<"1", ".", "9", "5">>), Str(<<"N", "/", "A">>))>>
    /\ normalized.markets[1].selections[1].odds = Num(195)
    /\ normalized.markets[1].selections[2].odds = Null
    /\ table.rows[1].odds.text = <<"1", ".", "9", "5">>
    /\ table.rows[2].odds.text = Dash

\* the ids of the upstream markets that carry one, in upstream order
RECURSIVE UpstreamMarketIds(_)
UpstreamMarketIds(markets) ==
    IF markets = <<>> THEN <<>>
    ELSE (IF Has(Head(markets), "id") /\ Head(markets).id # ""
          THEN <<Head(markets).id>> ELSE <<>>)
         \o UpstreamMarketIds(Tail(markets))

\* the ids of the upstream selections of the markets that carry an id, market
\* after market, each market's selections in upstream order
RECURSIVE UpstreamSelectionIds(_)
UpstreamSelectionIds(markets) ==
    IF markets = <<>> THEN <<>>
    ELSE (IF Has(Head(markets), "id") /\ Head(markets).id # ""
             /\ Has(Head(markets), "selections")
          THEN [j \in DOMAIN Head(markets).selections |-> Head(markets).selections[j].id]
          ELSE <<>>)
         \o UpstreamSelectionIds(Tail(markets))

UpstreamMarkets == IF Has(rawResponse, "markets") THEN rawResponse.markets ELSE <<>>

(* C13: the normalized markets are the upstream markets that carry an id, *)
(* in upstream order, none added, repeated or moved; the selections of    *)
(* each are its upstream selections in upstream order, with their names;  *)
(* and the rows of the table are those selections, market after market.   *)
(* The body of the page's test yields the one market Match Winner with    *)
(* Team A at 1.90 and Team B at 2.10, in that order, in the summary and   *)
(* in the table.                                                          *)
C13_OrderPreserved ==
    normPc \in {"normalized", "rendered"} =>
        /\ [i \in DOMAIN normalized.markets |-> normalized.markets[i].marketId]
              = UpstreamMarketIds(UpstreamMarkets)
        /\ \A i \in DOMAIN normalized.markets :
              LET sels == normalized.markets[i].selections
              IN  /\ [j \in DOMAIN sels |-> sels[j].selectionId]
                        = [j \in DOMAIN RawSelections(i) |-> RawSelections(i)[j].id]
                  /\ [j \in DOMAIN sels |-> sels[j].selectionName]
                        = [j \in DOMAIN RawSelections(i) |-> RawSelections(i)[j].name]
        /\ normPc = "rendered" =>
              /\ [k \in DOMAIN table.rows |-> table.rows[k].key]
                    = UpstreamSelectionIds(UpstreamMarkets)
              /\ table.empty <=> UpstreamMarketIds(UpstreamMarkets) = <<>>
        /\ rawResponse = mockOdds =>
              /\ Len(normalized.markets) = 1
              /\ normalized.markets[1].marketName = "Match Winner"
              /\ [j \in DOMAIN normalized.markets[1].selections |->
                    <<normalized.markets[1].selections[j].selectionName,
                      normalized.markets[1].selections[j].odds>>]
                    = <<(<<"Team A", Num(190)>>), (<<"Team B", Num(210)>>)>>
              /\ normPc = "rendered" =>
                    [k \in DOMAIN table.rows |->
                        <<table.rows[k].selectionName, table.rows[k].odds.text>>]
                        = <<(<<"Team A", <<"1", ".", "9", "0">> >>),
                            (<<"Team B", <<"2", ".", "1", "0">> >>)>>

\* a body whose first market has no id, followed by m4 and then m1, has
\* been normalized and rendered: two markets, three rows, in upstream order
C13_Witness ==
    /\ normPc = "rendered"
    /\ Has(rawResponse, "markets")
    /\ Len(rawResponse.markets) = 3
    /\ ~Has(rawResponse.markets[1], "id")
    /\ [i \in DOMAIN normalized.markets |-> normalized.markets[i].marketId] = <<"m4", "m1">>
    /\ [k \in DOMAIN table.rows |-> table.rows[k].key] = <<"s6", "s1", "s2">>

(* C14: at most one countdown timer is live in every reachable state:    *)
(* exactly one while the page is mounted with auto-refresh on, none while *)
(* auto-refresh is off and none after the page is torn down.  Every step, *)
(* a toggle, a settlement, a change of key or the teardown, leaves at     *)
(* most one, so a period never takes the countdown down by more than one. *)
C14_SingleCountdownTimer ==
    /\ [](timers = (IF mounted /\ autoRefresh THEN 1 ELSE 0))
    /\ [][timers' <= 1]_vars
    /\ [][Unmount => timers' = 0]_vars
    /\ [][Tick => (\/ secondsRemaining' = secondsRemaining - 1
                   \/ secondsRemaining' = FullSeconds)]_vars

\* the page was torn down with an event id set and auto-refresh on: the
\* timer of the last run of the effect is cleared
C14_Witness ==
    /\ ~mounted
    /\ autoRefresh
    /\ eventId = KeyB
    /\ timers = 0

(* C15: the toggle sets the refetch interval and nothing else: the query *)
(* is enabled exactly when the event id is not empty, auto-refresh on or  *)
(* off.  With auto-refresh off, a submit that moves the page to a key     *)
(* without data starts one request for it, none having been outstanding;  *)
(* and while auto-refresh stays off and the key is kept there is no       *)
(* refetch timer, the timer never fires and no further request starts.    *)
C15_ToggleOnlySetsInterval ==
    /\ [](enabled(eventId) <=> eventId # Empty)
    /\ [][onToggle => (inflight' = inflight /\ eventId' = eventId)]_vars
    /\ [][\A k \in EventKeys :
            (~autoRefresh /\ Submit /\ eventId # k /\ eventId' = k /\ data[k] = NoData)
                => /\ RequestsFor(k) = 0
                   /\ RequestsFor(k)' = 1
                   /\ fetchStatus'[queryKey(k)] = "fetching"
                   /\ ~autoRefresh']_vars
    /\ [](~autoRefresh => refetchTimer = NoTimer)
    /\ [][~autoRefresh => ~IntervalFire]_vars
    /\ [][(~autoRefresh /\ ~autoRefresh' /\ eventId' = eventId) =>
            \A k \in Keys : RequestsFor(k)' <= RequestsFor(k)]_vars

\* auto-refresh is off and the first request for the selected key B is
\* outstanding, A having been loaded before: no refetch timer is set
C15_Witness ==
    /\ mounted
    /\ ~autoRefresh
    /\ eventId = KeyB
    /\ exposedData = NoData
    /\ exposedError = NoError
    /\ RequestsFor(KeyB) = 1
    /\ data[KeyA] # NoData
    /\ refetchTimer = NoTimer

\* a text of spaces only, the empty text included
Blank(s) == \A i \in DOMAIN s : s[i] = " "

BlankInputs == {raw \in Inputs : Blank(raw)}

\* s is t with spaces, and nothing else, put before and after it
Padded(s, t) ==
    \E i, j \in 0 .. Len(s) :
        s = [n \in 1 .. i |-> " "] \o t \o [n \in 1 .. j |-> " "]

\* the event ids a submit can set: the inputs that are not blank, without
\* their outer spaces
SubmittedIds ==
    {id \in Keys : /\ id # Empty
                   /\ id[1] # " " /\ id[Len(id)] # " "
                   /\ \E raw \in Inputs \ BlankInputs : Padded(raw, id)}

(* C16: the event id is the empty string or a text that is not empty and  *)
(* has no space at either end.  A submit of an empty or blank input       *)
(* changes nothing; every change of the event id sets it to a submitted   *)
(* input without its outer spaces; and an event id that is set is never   *)
(* followed by the empty one, so a query that is enabled stays enabled.   *)
C16_EventIdTrimmedNonEmpty ==
    /\ [](eventId = Empty \/ eventId \in SubmittedIds)
    /\ [][(\E raw \in BlankInputs : handleSubmit(raw)) => UNCHANGED vars]_vars
    /\ [][eventId' # eventId => eventId' \in SubmittedIds]_vars
    /\ [][eventId # Empty => eventId' # Empty]_vars
    /\ [][enabled(eventId) => enabled(eventId')]_vars

\* an event id is set, its data is shown, and the form can be submitted
\* (with a blank input as with any other)
C16_Witness ==
    /\ mounted
    /\ eventId = KeyA
    /\ exposedData # NoData
    /\ ~SubmitDisabled
    /\ data[KeyB] # NoData

=============================================================================
